---- MODULE Spec2Model ----
(***************************************************************************)
(* Model of the Equation Connect client (class API of                      *)
(* EquationConnectSDK/EquationConnectAPI.py): the session fields, the      *)
(* sign-in and token-refresh procedures, the _request pipeline and the     *)
(* getters and setters built on it, run by cooperatively scheduled         *)
(* coroutines that suspend while they await an HTTP response, its body,    *)
(* or the exit of the `async with` block of a response; and of the         *)
(* construction and the token refresh of the synchronous pyrebase client   *)
(* (class EquationConnectAPI of EquationConnectAPI.py).                    *)
(*                                                                         *)
(* Spec is the client from its construction, used by one caller at a time  *)
(* except that calls of authenticate and of refresh_token may overlap,     *)
(* beside a pyrebase client; SpecApi is the signed-in client with every    *)
(* getter and setter, used by one caller at a time, which may cancel the   *)
(* call it awaits; SpecPair is the signed-in client with two requests in   *)
(* flight at most; SpecMixed is the signed-in client with a request and a  *)
(* sign-in in flight at most.                                              *)
(*                                                                         *)
(* Python values that may be None are sequences of length <= 1: None is    *)
(* <<>> and a value v is <<v>>.  A dict is a function on its keys.         *)
(* Time is in whole seconds.                                               *)
(***************************************************************************)
EXTENDS Integers, Sequences, FiniteSets, TLC

VARIABLES email, user, id_token, uid, token_expiration, now, calls, nextTok,
          task, legacy

vars == <<email, user, id_token, uid, token_expiration, now, calls, nextTok,
          task, legacy>>

session == <<email, user, id_token, uid, token_expiration>>

\* ------------------------------------------------------------------ bounds
MaxNow == 300
MaxCalls == 3

\* the coroutines the caller may have in flight at once
Tasks == {1, 2}

\* amounts by which the clock advances between two steps
TickSteps == {300}

\* ------------------------------------------------------- program constants
SafetyMargin == 300
DefaultLifetime == 3600
HttpOk == 200

\* ----------------------------------------------------------- Python values
None == <<>>
Some(v) == <<v>>

EmptyDict == [k \in {} |-> 0]

\* d[k] = v on a dict
DictSet(d, k, v) == [y \in (DOMAIN d) \cup {k} |-> IF y = k THEN v ELSE d[y]]

\* d.get(k): None when the key is missing
DictGet(d, k) == IF k \in DOMAIN d THEN Some(d[k]) ELSE None

\* str(x) as used by an f-string
Format(x) == IF x = None THEN "None" ELSE x[1]

\* the lifetimes the identity provider may declare (decimal strings)
ExpiresInValues == {"0", "600", "soon"}

\* int(s) raises ValueError on a string that is not a decimal number
IntDefined(s) == s \in {"0", "600"}
IntOf(s) == CASE s = "0" -> 0 [] s = "600" -> 600 [] OTHER -> 0

\* user ids the identity provider may return
Uids == {"u1", "u2"}

\* ------------------------------------------------------------ HTTP replies
\* exc: the transport raised instead of delivering a response
Reply(exc, status, data) == [exc |-> exc, status |-> status, data |-> data]

TransportError == Reply(TRUE, 0, None)

\* sign-in bodies carrying the fresh token n
SignInBodies(n) ==
    LET full(u) == [idToken |-> n, localId |-> u, refreshToken |-> n]
    IN  {full(u) : u \in Uids}
        \cup {DictSet(full("u1"), "expiresIn", e) : e \in ExpiresInValues}
        \cup {[localId |-> "u1", refreshToken |-> n],
              [idToken |-> n, refreshToken |-> n],
              [idToken |-> n, localId |-> "u1"],
              EmptyDict}

\* a 200 reply may also carry the JSON value null, decoded to None
SignInReplies(n) ==
    {TransportError, Reply(FALSE, 400, None), Reply(FALSE, HttpOk, None)}
    \cup {Reply(FALSE, HttpOk, Some(b)) : b \in SignInBodies(n)}

\* token-exchange bodies carrying the fresh token n
TokenBodies(n) ==
    LET full == [id_token |-> n, refresh_token |-> n]
    IN  {full}
        \cup {DictSet(full, "expires_in", e) : e \in ExpiresInValues}
        \cup {[refresh_token |-> n], [id_token |-> n]}

TokenReplies(n) ==
    {TransportError, Reply(FALSE, 400, None), Reply(FALSE, HttpOk, None)}
    \cup {Reply(FALSE, HttpOk, Some(b)) : b \in TokenBodies(n)}

\* JSON documents of the store: a kind and a number of entries
Json(kind, n) == [kind |-> kind, n |-> n]
JsonValues == {None, Some(Json("dict", 0)), Some(Json("dict", 1)),
               Some(Json("list", 1))}

\* a body that is not JSON: resp.json() raises on it
Undecodable == Some(Json("undecodable", 0))

\* Python truthiness of a decoded JSON value
Truthy(v) == v # None /\ v[1].n > 0

DbStatuses == {HttpOk, 204, 403}

DbReplies ==
    {TransportError}
    \cup {Reply(FALSE, HttpOk, v) : v \in JsonValues \cup {Undecodable}}
    \cup {Reply(FALSE, s, Some(Json("dict", 1))) : s \in DbStatuses \ {HttpOk}}

\* ------------------------------------------------------------ the session
\* The client of the pyrebase class EquationConnectAPI: whether one has been
\* constructed (state: "none", "ready", or "failed" when __init__ raised),
\* its fields, the exception __init__ raised, and the method run last
\* (last: "init", "refreshed" or "refresh failed").
NoLegacy == [state |-> "none", email |-> "", user |-> None,
             id_token |-> None, uid |-> None, raised |-> "", last |-> "none"]

Sess(u, tok, id, exp) ==
    [user |-> u, id_token |-> tok, uid |-> id, token_expiration |-> exp]

CurrentSess == Sess(user, id_token, uid, token_expiration)

\* int(data.get(key, 3600)): the lifetime, and whether int() raises
Lifetime(data, key) ==
    IF key \in DOMAIN data THEN IntOf(data[key]) ELSE DefaultLifetime

LifetimeRaises(data, key) == key \in DOMAIN data /\ ~IntDefined(data[key])

\* the expiry with the clock left out
ExpiryNoClock(t, expires_in) == expires_in

\* the expiry with the lifetime left out
ExpiryNoLifetime(t, expires_in) == t

\* time.time() + expires_in
Expiry(t, expires_in) == t + expires_in

\* authenticate with the expiry assigned before the response is read
AuthenticateReplyExpiryFirst(S, r, t) ==
    IF r.exc \/ r.status # HttpOk THEN [s |-> S, ok |-> FALSE]
    ELSE IF r.data = None THEN [s |-> [S EXCEPT !.user = None], ok |-> FALSE]
    ELSE
      LET data == r.data[1]
          S1 == [S EXCEPT !.user = Some(data),
                          !.token_expiration = Expiry(t, DefaultLifetime)]
          S2 == [S1 EXCEPT !.id_token = Some(data.idToken)]
          S3 == [S2 EXCEPT !.uid = Some(data.localId)]
          expires_in == Lifetime(data, "expiresIn")
          S4 == [S3 EXCEPT !.token_expiration = Expiry(t, expires_in)]
      IN  IF "idToken" \notin DOMAIN data THEN [s |-> S1, ok |-> FALSE]
          ELSE IF "localId" \notin DOMAIN data THEN [s |-> S2, ok |-> FALSE]
          ELSE IF LifetimeRaises(data, "expiresIn")
               THEN [s |-> S3, ok |-> FALSE]
          ELSE [s |-> S4, ok |-> TRUE]

\* API.authenticate from the arrival of the sign-in reply r at time t:
\* the fields are assigned one by one, and an exception (a body that is
\* null, a missing key, a lifetime that is not a number) abandons the
\* remaining assignments.
AuthenticateReply(S, r, t) ==
    IF r.exc \/ r.status # HttpOk THEN [s |-> S, ok |-> FALSE]
    ELSE IF r.data = None THEN [s |-> [S EXCEPT !.user = None], ok |-> FALSE]
    ELSE
      LET data == r.data[1]
          S1 == [S EXCEPT !.user = Some(data)]
          S2 == [S1 EXCEPT !.id_token = Some(data.idToken)]
          S3 == [S2 EXCEPT !.uid = Some(data.localId)]
          expires_in == Lifetime(data, "expiresIn")
          S4 == [S3 EXCEPT !.token_expiration = Expiry(t, expires_in)]
      IN  IF "idToken" \notin DOMAIN data THEN [s |-> S1, ok |-> FALSE]
          ELSE IF "localId" \notin DOMAIN data THEN [s |-> S2, ok |-> FALSE]
          ELSE IF LifetimeRaises(data, "expiresIn")
               THEN [s |-> S3, ok |-> FALSE]
          ELSE [s |-> S4, ok |-> TRUE]

\* API.refresh_token up to its POST: "raised" (self.user is None),
\* "skipped" (no refresh token stored) or "post"
RefreshStart(S) ==
    IF S.user = None THEN "raised"
    ELSE IF DictGet(S.user[1], "refreshToken") = None THEN "skipped"
    ELSE "post"

\* refresh_token with the user record replaced by the token response
RefreshReplyTakesUser(S, r, t) ==
    IF r.exc \/ r.status # HttpOk THEN [s |-> S, ok |-> FALSE]
    ELSE IF r.data = None THEN [s |-> S, ok |-> FALSE]
    ELSE IF "id_token" \notin DOMAIN r.data[1] THEN [s |-> S, ok |-> FALSE]
    ELSE IF S.user = None
         THEN [s |-> [S EXCEPT !.id_token = Some(r.data[1].id_token)],
               ok |-> FALSE]
    ELSE
      LET data == r.data[1]
          S1 == [S EXCEPT !.id_token = Some(data.id_token),
                          !.user = Some([idToken |-> data.id_token])]
          S2 == [S1 EXCEPT !.user = Some(DictSet(S1.user[1], "refreshToken",
                                                 data.refresh_token))]
          expires_in == Lifetime(data, "expires_in")
          S3 == [S2 EXCEPT !.token_expiration = Expiry(t, expires_in)]
      IN  IF "id_token" \notin DOMAIN data THEN [s |-> S, ok |-> FALSE]
          ELSE IF "refresh_token" \notin DOMAIN data
               THEN [s |-> S1, ok |-> FALSE]
          ELSE IF LifetimeRaises(data, "expires_in")
               THEN [s |-> S2, ok |-> FALSE]
          ELSE [s |-> S3, ok |-> TRUE]

\* refresh_token with the new refresh token left unstored
RefreshReplyKeepsRefreshToken(S, r, t) ==
    IF r.exc \/ r.status # HttpOk THEN [s |-> S, ok |-> FALSE]
    ELSE IF r.data = None THEN [s |-> S, ok |-> FALSE]
    ELSE IF "id_token" \notin DOMAIN r.data[1] THEN [s |-> S, ok |-> FALSE]
    ELSE IF S.user = None
         THEN [s |-> [S EXCEPT !.id_token = Some(r.data[1].id_token)],
               ok |-> FALSE]
    ELSE
      LET data == r.data[1]
          S1 == [S EXCEPT !.id_token = Some(data.id_token),
                          !.user = Some(DictSet(S.user[1], "idToken",
                                                data.id_token))]
          expires_in == Lifetime(data, "expires_in")
          S3 == [S1 EXCEPT !.token_expiration = Expiry(t, expires_in)]
      IN  IF "id_token" \notin DOMAIN data THEN [s |-> S, ok |-> FALSE]
          ELSE IF "refresh_token" \notin DOMAIN data
               THEN [s |-> S1, ok |-> FALSE]
          ELSE IF LifetimeRaises(data, "expires_in")
               THEN [s |-> S1, ok |-> FALSE]
          ELSE [s |-> S3, ok |-> TRUE]

\* API.refresh_token from the arrival of the token-exchange reply r at time
\* t: self.id_token is assigned first, then the entries of self.user (which
\* another coroutine may have set to None), then the expiry
RefreshReply(S, r, t) ==
    IF r.exc \/ r.status # HttpOk THEN [s |-> S, ok |-> FALSE]
    ELSE IF r.data = None THEN [s |-> S, ok |-> FALSE]
    ELSE IF "id_token" \notin DOMAIN r.data[1] THEN [s |-> S, ok |-> FALSE]
    ELSE IF S.user = None
         THEN [s |-> [S EXCEPT !.id_token = Some(r.data[1].id_token)],
               ok |-> FALSE]
    ELSE
      LET data == r.data[1]
          S1 == [S EXCEPT !.id_token = Some(data.id_token),
                          !.user = Some(DictSet(S.user[1], "idToken",
                                                data.id_token))]
          S2 == [S1 EXCEPT !.user = Some(DictSet(S1.user[1], "refreshToken",
                                                 data.refresh_token))]
          expires_in == Lifetime(data, "expires_in")
          S3 == [S2 EXCEPT !.token_expiration = Expiry(t, expires_in)]
      IN  IF "id_token" \notin DOMAIN data THEN [s |-> S, ok |-> FALSE]
          ELSE IF "refresh_token" \notin DOMAIN data
               THEN [s |-> S1, ok |-> FALSE]
          ELSE IF LifetimeRaises(data, "expires_in")
               THEN [s |-> S2, ok |-> FALSE]
          ELSE [s |-> S3, ok |-> TRUE]

\* the test with the boundary instant left out
RefreshDueStrict(S, t) == t > S.token_expiration - SafetyMargin

\* the test of API.ensure_token_valid
RefreshDue(S, t) == t >= S.token_expiration - SafetyMargin

\* ----------------------------------------------------------- the requests
DatabaseUrl == "https://oem2-elife-cloud-prod-default-rtdb.firebaseio.com"

\* dict.update
DictUpdate(a, b) ==
    [k \in (DOMAIN a) \cup (DOMAIN b) |-> IF k \in DOMAIN b THEN b[k] ELSE a[k]]

\* the request built without the token
RequestNoToken(S, method, path, json_data, params) ==
    [method |-> method,
     url    |-> DatabaseUrl \o "/" \o path \o ".json",
     json   |-> json_data,
     params |-> DictUpdate([auth |-> None], params)]

\* the call of session.request made by API._request
Request(S, method, path, json_data, params) ==
    [method |-> method,
     url    |-> DatabaseUrl \o "/" \o path \o ".json",
     json   |-> json_data,
     params |-> DictUpdate([auth |-> S.id_token], params)]

\* a string left bare
QuotedBare(s) == s

\* a string as a JSON string literal
Quoted(s) == "\"" \o s \o "\""

RequestOps == {"get_user_info", "get_installations"}

\* the arguments of a call of _request
Args(method, path, json_data, params) ==
    [method |-> method, path |-> path, json |-> json_data, params |-> params]

NoArgs == Args("", "", None, EmptyDict)

\* the _request call each getter makes: its arguments are formatted from
\* self.uid as it is when the getter is called
RequestOf(op, S) ==
    IF op = "get_installations"
    THEN Args("GET", "installations2", None,
              [orderBy |-> Quoted("userid"),
               equalTo |-> Quoted(Format(S.uid))])
    ELSE Args("GET", "users/" \o Format(S.uid), None, EmptyDict)

\* the reply handled without the test of the status
RequestReplyAnyStatus(r) ==
    IF r.exc \/ r.data = Undecodable THEN [ret |-> None, parsed |-> FALSE]
    ELSE [ret |-> r.data, parsed |-> TRUE]

\* API._request from the arrival of the store's reply r: the value returned
\* and whether the body was decoded into it
RequestReply(r) ==
    IF r.exc THEN [ret |-> None, parsed |-> FALSE]
    ELSE IF r.status # HttpOk THEN [ret |-> None, parsed |-> FALSE]
    ELSE IF r.data = Undecodable THEN [ret |-> None, parsed |-> FALSE]
    ELSE [ret |-> r.data, parsed |-> TRUE]

\* the getter handing on whatever _request returned
GetterResultRaw(op, data) == data

\* what the getter does with the value _request returned
GetterResult(op, data) ==
    IF op = "get_installations" /\ ~Truthy(data)
    THEN Some(Json("dict", 0))
    ELSE data

\* ------------------------------------------------------------- the devices
\* device ids the caller may name and the store may list
DeviceNames == {"d1", "d2"}

DeviceOps == {"get_device", "set_device_power", "set_device_temperature",
              "set_device_mode"}

\* the methods that go through _request
StoreOps == RequestOps \cup DeviceOps \cup {"get_devices"}

\* the JSON body each method sends
Payloads(op) ==
    CASE op = "set_device_power" -> {Some([power |-> b]) : b \in BOOLEAN}
      [] op = "set_device_temperature" -> {Some([temp |-> 21])}
      [] op = "set_device_mode" -> {Some([mode |-> "eco"])}
      [] OTHER -> {None}

\* the arguments of the _request call of frame f, made in the session S: of
\* a getter of RequestOps, of get_devices before it has a device to read
\* (its call of get_installations), of a device read, or of a setter
ArgsFor(f, S) ==
    IF f.op \in RequestOps THEN RequestOf(f.op, S)
    ELSE IF f.dev = None THEN RequestOf("get_installations", S)
    ELSE IF f.op \in {"get_device", "get_devices"}
    THEN Args("GET", "devices/" \o f.dev[1], None, EmptyDict)
    ELSE Args("PATCH", "devices/" \o f.dev[1] \o "/data", f.json, EmptyDict)

\* frame f calls _request in the session S
Called(f, S) == [f EXCEPT !.args = ArgsFor(f, S)]

\* the call of session.request of frame f: the arguments _request was
\* called with and the token of the session S, that of the instant of the
\* call of session.request
RequestFor(f, S) ==
    Request(S, f.args.method, f.args.path, f.args.json, f.args.params)

\* The installations document: a dict of installations in the order of the
\* document, each a dict that may hold "zones", a dict of zones in order,
\* each a dict that may hold "devices", whose keys in order are device ids.
\* A dict iterated in order is the sequence of its values.
Zone(ids) == [devices |-> ids]
Installation(zones) == [zones |-> zones]

InstallationTrees ==
    {<<Installation(<<Zone(<<"d1", "d2">>)>>)>>,
     <<EmptyDict, Installation(<<EmptyDict, Zone(<<"d2">>)>>)>>}

Installations(tree) == [kind |-> "dict", n |-> Len(tree), items |-> tree]

RECURSIVE Flatten(_)
Flatten(ss) == IF Len(ss) = 0 THEN <<>> ELSE Head(ss) \o Flatten(Tail(ss))

\* zone_data.get("devices", {}).keys()
ZoneDevices(zone) == IF "devices" \in DOMAIN zone THEN zone.devices ELSE <<>>

\* the device ids under inst_data.get("zones", {}), zone by zone
InstallationDevices(inst) ==
    LET zones == IF "zones" \in DOMAIN inst THEN inst.zones ELSE <<>>
    IN  Flatten([i \in 1..Len(zones) |-> ZoneDevices(zones[i])])

\* the device ids get_devices reads, in the order of its three loops
DeviceIds(v) ==
    LET items == IF "items" \in DOMAIN v THEN v.items ELSE <<>>
    IN  Flatten([i \in 1..Len(items) |-> InstallationDevices(items[i])])

\* the store's replies to the installations query of get_devices
InstallationsReplies ==
    (DbReplies \ {Reply(FALSE, HttpOk, Some(Json("dict", 1)))})
    \cup {Reply(FALSE, HttpOk, Some(Installations(tr))) :
            tr \in InstallationTrees}

\* the session with the token forgotten
SessionTokenDropped(S, r) == [S EXCEPT !.id_token = None]

\* the session once _request has handled the store's reply r: it assigns
\* no field
SessionAfterStore(S, r) == S

\* ------------------------------------------------------------- coroutines
\* One record per coroutine: the method the caller invoked (op), where it is
\* suspended (pc), and what it has done since it was invoked: HTTP calls
\* issued (nsignin, ntoken, ndb), calls of refresh_token (nrefresh), the
\* outcome of ensure_token_valid's test (due), how refresh_token ended
\* (refresh), the arguments of its call of _request (args), the store
\* request issued last (req) and all of them (sent), the status of the
\* response to the HTTP call made last (status, 0 when none arrived), the
\* body of the store's response (body), whether it was decoded (parsed),
\* and how the method ended: the exception it raised (raised, "" when
\* none) or the value it returned (ret).  Of the token exchange it also
\* keeps the lifetime a successful reply declared (lifetime) and the
\* id_token the session held when the reply arrived (pre).  Of a sign-in
\* that succeeded it keeps the lifetime the response declared (lifetime),
\* the instant its body arrived (at) and the token_expiration that
\* authenticate assigned (expires).
\*
\* A coroutine is suspended while it awaits a response (await_signin,
\* await_token, await_db), the body of the response (body_signin,
\* body_token, body_db), or the exit of the `async with` block of a
\* response it has handled (exit_signin, exit_token, exit_db); out is then
\* how the handling went: "ok", "failed", or "cancelled" when
\* CancelledError is leaving the block.
\* authenticate returns self.user, the object it stored: while it leaves its
\* block that object stays the session's user record (alias) unless another
\* sign-in replaces it, and then held is what the object contained.
\*
\* A method on a device keeps the device id of its current _request (dev)
\* and the body it sends (json); get_devices keeps the device ids the
\* installations listed (listed, None until get_installations has
\* returned), those still to read (todo), what each get_device returned
\* (got) and its list of devices (devices), each with the id assigned to it
\* and the index in sent of the request that fetched it (via).
Fresh(op) ==
    [op |-> op, pc |-> "idle", nsignin |-> 0, ntoken |-> 0, ndb |-> 0,
     nrefresh |-> 0, due |-> "na", refresh |-> "none", req |-> None,
     status |-> 0, body |-> None, parsed |-> FALSE, raised |-> "",
     ret |-> None, lifetime |-> 0, sent |-> <<>>, dev |-> None,
     json |-> None, listed |-> None, todo |-> <<>>, got |-> <<>>,
     devices |-> <<>>, out |-> "", alias |-> FALSE, held |-> None,
     pre |-> None, args |-> NoArgs, at |-> 0, expires |-> 0]

\* The caller starts a coroutine in the first slot that has none in flight.
\* The record of a coroutine that has ended is kept until the next step of
\* another coroutine or of the clock: the caller has taken its result by then.
Free(t) == task[t].pc \in {"idle", "done"}

CanCall(t) ==
    /\ Free(t)
    /\ \A u \in Tasks : u < t => ~Free(u)
    /\ calls < MaxCalls

Put(t, f) ==
    [u \in Tasks |-> IF u = t THEN f
                     ELSE IF Free(u) THEN Fresh("none") ELSE task[u]]

\* self.user = data (line 42) in another coroutine: an authenticate that is
\* leaving its block keeps the object it is about to return
Detach(f) ==
    IF f.pc = "exit_signin" /\ f.alias
    THEN [f EXCEPT !.alias = FALSE, !.held = user]
    ELSE f

PutDetach(t, f) ==
    [u \in Tasks |-> IF u = t THEN f
                     ELSE IF Free(u) THEN Fresh("none") ELSE Detach(task[u])]

\* the fields the replies assign; self.email is assigned in __init__ only
SetSession(S) ==
    /\ email' = email
    /\ user' = S.user
    /\ id_token' = S.id_token
    /\ uid' = S.uid
    /\ token_expiration' = S.token_expiration

\* API.__init__
Init ==
    /\ email = "user@example.com"
    /\ user = None
    /\ id_token = None
    /\ uid = None
    /\ token_expiration = 0
    /\ now = 0
    /\ calls = 0
    /\ nextTok = 1
    /\ task = [t \in Tasks |-> Fresh("none")]
    /\ legacy = NoLegacy

\* the clock of time.time() advances
Tick ==
    /\ \E d \in TickSteps : now + d <= MaxNow /\ now' = now + d
    /\ task' = [u \in Tasks |-> IF Free(u) THEN Fresh("none") ELSE task[u]]
    /\ UNCHANGED <<session, calls, nextTok, legacy>>

\* _request after ensure_token_valid: build the request from the session as
\* it is now and suspend on session.request
IssueRequest(f, S) ==
    [f EXCEPT !.pc = "await_db", !.ndb = @ + 1,
              !.req = Some(RequestFor(f, S)),
              !.sent = Append(@, RequestFor(f, S)),
              !.status = 0, !.body = None, !.parsed = FALSE]

\* refresh_token entered from frame f: runs to its POST, or ends before it
EnterRefresh(f, S) ==
    LET g == [f EXCEPT !.nrefresh = @ + 1]
        how == RefreshStart(S)
    IN  IF how = "raised"
        THEN [g EXCEPT !.pc = "done", !.refresh = "raised",
                       !.raised = "AttributeError"]
        ELSE IF how = "skipped"
        THEN [g EXCEPT !.refresh = "skipped"]
        ELSE [g EXCEPT !.pc = "await_token", !.ntoken = @ + 1]

\* ensure_token_valid entered from frame f
EnterEnsure(f, S, t) ==
    IF RefreshDue(S, t)
    THEN EnterRefresh([f EXCEPT !.due = "yes"], S)
    ELSE [f EXCEPT !.due = "no"]

\* the caller invokes authenticate: the sign-in POST is issued
CallAuthenticate(t) ==
    /\ CanCall(t)
    /\ task' = Put(t,
                  [Fresh("authenticate") EXCEPT !.pc = "await_signin",
                                                !.nsignin = 1])
    /\ calls' = calls + 1
    /\ UNCHANGED <<session, now, nextTok, legacy>>

\* The status of the sign-in response arrives (line 33), the body being
\* awaited next (line 35 or 39); a transport exception ends the method at
\* once (lines 51-53).
SignInReply(t) ==
    /\ task[t].pc = "await_signin"
    /\ \E r \in {TransportError, Reply(FALSE, 400, None),
                 Reply(FALSE, HttpOk, None)} :
         task' = Put(t, IF r.exc THEN [task[t] EXCEPT !.pc = "done"]
                        ELSE [task[t] EXCEPT !.pc = "body_signin",
                                             !.status = r.status])
    /\ UNCHANGED <<session, now, calls, nextTok, legacy>>

\* The body of the sign-in response arrives and authenticate handles it
\* (lines 35-49), up to the exit of its `async with` block.
SignInBody(t) ==
    /\ task[t].pc = "body_signin"
    /\ \E r \in {q \in SignInReplies(nextTok) :
                   ~q.exc /\ q.status = task[t].status} :
         LET res == AuthenticateReply(CurrentSess, r, now)
             f == [task[t] EXCEPT
                     !.pc = "exit_signin",
                     !.out = IF res.ok THEN "ok" ELSE "failed",
                     !.alias = res.ok,
                     !.lifetime = IF res.ok
                                  THEN Lifetime(r.data[1], "expiresIn")
                                  ELSE 0,
                     !.at = IF res.ok THEN now ELSE 0,
                     !.expires = IF res.ok THEN res.s.token_expiration
                                 ELSE 0]
         IN  /\ SetSession(res.s)
             /\ task' = IF r.status # HttpOk
                        THEN Put(t, f) ELSE PutDetach(t, f)
             /\ nextTok' = IF r.status # HttpOk THEN nextTok
                                                ELSE nextTok + 1
    /\ UNCHANGED <<now, calls, legacy>>

\* authenticate leaves its `async with` block and returns: self.user as it
\* is by now when it succeeded, None otherwise; CancelledError raised at
\* the await of the body ends the method here
SignInExit(t) ==
    /\ task[t].pc = "exit_signin"
    /\ task' = Put(t,
                  [task[t] EXCEPT
                     !.pc = "done",
                     !.raised = IF task[t].out = "cancelled"
                                THEN "CancelledError" ELSE "",
                     !.ret = IF task[t].out # "ok" THEN None
                             ELSE IF task[t].alias THEN user
                             ELSE task[t].held,
                     !.out = "", !.alias = FALSE, !.held = None])
    /\ UNCHANGED <<session, now, calls, nextTok, legacy>>

\* a frame that has left refresh_token without suspending ends the method
EndIfReturned(f) ==
    IF f.pc = "idle" THEN [f EXCEPT !.pc = "done"] ELSE f

\* the caller invokes refresh_token
CallRefreshToken(t) ==
    /\ CanCall(t)
    /\ task' = Put(t,
                  EndIfReturned(EnterRefresh(Fresh("refresh_token"),
                                             CurrentSess)))
    /\ calls' = calls + 1
    /\ UNCHANGED <<session, now, nextTok, legacy>>

\* the caller invokes ensure_token_valid
CallEnsureTokenValid(t) ==
    /\ CanCall(t)
    /\ task' = Put(t,
                  EndIfReturned(EnterEnsure(Fresh("ensure_token_valid"),
                                            CurrentSess, now)))
    /\ calls' = calls + 1
    /\ UNCHANGED <<session, now, nextTok, legacy>>

\* the caller invokes a getter, which calls _request: ensure_token_valid,
\* then, unless the refresh is awaited or has raised, the store request
CallRequest(t) ==
    /\ CanCall(t)
    /\ \E op \in RequestOps :
         LET f == EnterEnsure(Called(Fresh(op), CurrentSess),
                              CurrentSess, now)
         IN  task' = Put(t,
                        IF f.pc = "idle" THEN IssueRequest(f, CurrentSess)
                                         ELSE f)
    /\ calls' = calls + 1
    /\ UNCHANGED <<session, now, nextTok, legacy>>

\* refresh_token has ended as how says and its caller continues in the
\* session S: _request up to the store request, or the end of the method
AfterRefresh(f, how, S) ==
    LET g == [f EXCEPT !.refresh = how, !.out = ""]
    IN  IF g.op \in StoreOps THEN IssueRequest(g, S)
                             ELSE [g EXCEPT !.pc = "done"]

\* The status of the token-exchange response arrives (line 71): when it is
\* not 200 refresh_token returns from inside the block (lines 72-74), and
\* when it is 200 the body is awaited next (line 76); a transport exception
\* ends refresh_token at once (lines 87-88) and its caller continues.
TokenReply(t) ==
    /\ task[t].pc = "await_token"
    /\ \E r \in {TransportError, Reply(FALSE, 400, None),
                 Reply(FALSE, HttpOk, None)} :
         task' = Put(t,
                    IF r.exc THEN AfterRefresh(task[t], "failed", CurrentSess)
                    ELSE IF r.status # HttpOk
                    THEN [task[t] EXCEPT !.pc = "exit_token",
                                         !.status = r.status,
                                         !.out = "failed"]
                    ELSE [task[t] EXCEPT !.pc = "body_token",
                                         !.status = r.status])
    /\ UNCHANGED <<session, now, calls, nextTok, legacy>>

\* The body of the token-exchange response arrives and refresh_token
\* handles it (lines 76-85), up to the exit of its `async with` block.
TokenBody(t) ==
    /\ task[t].pc = "body_token"
    /\ \E r \in {q \in TokenReplies(nextTok) :
                   ~q.exc /\ q.status = HttpOk} :
         LET res == RefreshReply(CurrentSess, r, now)
         IN  /\ SetSession(res.s)
             /\ task' = Put(t, [task[t] EXCEPT
                                  !.pc = "exit_token",
                                  !.out = IF res.ok THEN "ok" ELSE "failed",
                                  !.pre = id_token,
                                  !.lifetime =
                                     IF res.ok
                                     THEN Lifetime(r.data[1], "expires_in")
                                     ELSE 0])
    /\ nextTok' = nextTok + 1
    /\ UNCHANGED <<now, calls, legacy>>

\* refresh_token leaves its `async with` block and returns; its caller
\* continues in the session as it is by now; CancelledError raised at the
\* await of the body ends the method here
TokenExit(t) ==
    /\ task[t].pc = "exit_token"
    /\ task' = Put(t,
                  IF task[t].out = "cancelled"
                  THEN [task[t] EXCEPT !.pc = "done",
                                       !.raised = "CancelledError",
                                       !.out = ""]
                  ELSE AfterRefresh(task[t], task[t].out, CurrentSess))
    /\ UNCHANGED <<session, now, calls, nextTok, legacy>>

\* the reply _request has received: a transport exception when no status
\* arrived
Received(f) == Reply(f.status = 0, f.status, f.body)

\* _request issuing its store request again after a reply that is no success
EndRequestRetry(f, r) ==
    IF r.exc \/ r.status # HttpOk
    THEN [f EXCEPT !.pc = "await_db", !.ndb = @ + 1, !.status = r.status,
                   !.body = r.data]
    ELSE [f EXCEPT !.pc = "done", !.status = r.status, !.body = r.data,
                   !.parsed = RequestReply(r).parsed,
                   !.ret = GetterResult(f.op, RequestReply(r).ret)]

\* _request returns on the store's reply r and the getter ends
EndRequest(f, r) ==
    LET res == RequestReply(r)
    IN  [f EXCEPT !.pc = "done",
                  !.status = r.status,
                  !.body = r.data,
                  !.parsed = res.parsed,
                  !.ret = GetterResult(f.op, res.ret)]

\* get_devices goes on to the next device id: get_device and its _request
\* up to the next suspension, or the end of the loops
NextDevice(f, S, t) ==
    IF Len(f.todo) = 0
    THEN [f EXCEPT !.pc = "done", !.ret = Some(Json("list", Len(f.devices)))]
    ELSE LET g == EnterEnsure(Called([f EXCEPT !.pc = "idle",
                                               !.dev = Some(Head(f.todo)),
                                               !.todo = Tail(f.todo)], S),
                              S, t)
         IN  IF g.pc = "idle" THEN IssueRequest(g, S) ELSE g

\* get_devices from the store's reply r to its installations query
AfterInstallations(f, r, S, t) ==
    LET installations == GetterResult("get_installations",
                                      RequestReply(r).ret)
    IN  IF ~Truthy(installations)
        THEN [f EXCEPT !.pc = "done", !.listed = Some(<<>>),
                       !.ret = Some(Json("list", 0))]
        ELSE IF installations[1].kind # "dict"
        THEN [f EXCEPT !.pc = "done", !.raised = "AttributeError"]
        ELSE NextDevice([f EXCEPT
                           !.listed = Some(DeviceIds(installations[1])),
                           !.todo = DeviceIds(installations[1])], S, t)

\* get_devices from the store's reply r to a device read
AfterDevice(f, r, S, t) ==
    LET device == RequestReply(r).ret
        g == [f EXCEPT !.got = Append(@, device)]
    IN  IF ~Truthy(device) THEN NextDevice(g, S, t)
        ELSE IF device[1].kind # "dict"
        THEN [g EXCEPT !.pc = "done", !.raised = "TypeError"]
        ELSE NextDevice([g EXCEPT !.devices =
                            Append(@, [id |-> f.dev[1],
                                       via |-> Len(f.sent)])], S, t)

\* _request has returned in frame f and the method that called it continues
AfterStore(f, S, t) ==
    IF f.op # "get_devices" THEN EndRequest(f, Received(f))
    ELSE IF f.dev = None THEN AfterInstallations(f, Received(f), S, t)
    ELSE AfterDevice(f, Received(f), S, t)

\* the status of the store's response arrives (line 112), the body being
\* awaited next (line 113 or 117); a transport exception makes _request
\* return None at once (lines 118-120)
StoreReply(t) ==
    /\ task[t].pc = "await_db"
    /\ \E r \in {TransportError}
              \cup {Reply(FALSE, st, None) : st \in DbStatuses} :
         /\ task' = Put(t,
                       IF r.exc THEN AfterStore(task[t], CurrentSess, now)
                       ELSE [task[t] EXCEPT !.pc = "body_db",
                                            !.status = r.status])
         /\ SetSession(SessionAfterStore(CurrentSess, r))
    /\ UNCHANGED <<now, calls, nextTok, legacy>>

\* the bodies the store may send with the status it sent to frame f
StoreBodies(f) ==
    {r.data : r \in {q \in (IF f.op = "get_devices" /\ f.dev = None
                            THEN InstallationsReplies ELSE DbReplies) :
                       ~q.exc /\ q.status = f.status}}

\* the body of the store's response arrives: its text is logged (line 113)
\* or it is decoded (line 117), up to the exit of the `async with` block
StoreBody(t) ==
    /\ task[t].pc = "body_db"
    /\ \E b \in StoreBodies(task[t]) :
         LET r == Reply(FALSE, task[t].status, b)
         IN  /\ task' = Put(t, [task[t] EXCEPT
                                  !.pc = "exit_db",
                                  !.body = b,
                                  !.parsed = RequestReply(r).parsed])
             /\ SetSession(SessionAfterStore(CurrentSess, r))
    /\ UNCHANGED <<now, calls, nextTok, legacy>>

\* _request leaves its `async with` block and returns; CancelledError
\* raised at the await of the body ends the method here
StoreExit(t) ==
    /\ task[t].pc = "exit_db"
    /\ task' = Put(t,
                  IF task[t].out = "cancelled"
                  THEN [task[t] EXCEPT !.pc = "done",
                                       !.raised = "CancelledError",
                                       !.out = ""]
                  ELSE AfterStore(task[t], CurrentSess, now))
    /\ UNCHANGED <<session, now, calls, nextTok, legacy>>

\* ------------------------------------------------- the pyrebase client
\* what auth.sign_in_with_email_and_password may do with the fresh token n:
\* raise (None here), or return the account
LegacySignIns(n) ==
    LET full == [idToken |-> n, localId |-> "u1", refreshToken |-> n]
    IN  {None, Some(full), Some([localId |-> "u1", refreshToken |-> n]),
         Some([idToken |-> n, refreshToken |-> n]),
         Some([idToken |-> n, localId |-> "u1"])}

\* what auth.refresh may do with the fresh token n: raise (None here), or
\* return the refreshed account
LegacyRefreshes(n) ==
    {None, Some([userId |-> "u1", idToken |-> n, refreshToken |-> n]),
     Some([userId |-> "u1", refreshToken |-> n])}

\* EquationConnectAPI.__init__ on the outcome r of the sign-in:
\* _authenticate returns None when the sign-in raised, and __init__ then
\* subscripts it
LegacyConstruct(r) ==
    LET L0 == [NoLegacy EXCEPT !.state = "failed",
                               !.email = "user@example.com", !.user = r,
                               !.last = "init"]
    IN  IF r = None THEN [L0 EXCEPT !.raised = "TypeError"]
        ELSE IF "idToken" \notin DOMAIN r[1]
        THEN [L0 EXCEPT !.raised = "KeyError"]
        ELSE IF "localId" \notin DOMAIN r[1]
        THEN [L0 EXCEPT !.id_token = Some(r[1].idToken),
                        !.raised = "KeyError"]
        ELSE [L0 EXCEPT !.state = "ready",
                        !.id_token = Some(r[1].idToken),
                        !.uid = Some(r[1].localId)]

\* EquationConnectAPI.refresh_token on the outcome r of auth.refresh, which
\* is not called when the account holds no refresh token
LegacyRefreshed(L, r) ==
    IF "refreshToken" \notin DOMAIN L.user[1] \/ r = None
    THEN [L EXCEPT !.last = "refresh failed"]
    ELSE IF "idToken" \notin DOMAIN r[1]
    THEN [L EXCEPT !.user = r, !.last = "refresh failed"]
    ELSE [L EXCEPT !.user = r, !.id_token = Some(r[1].idToken),
                   !.last = "refreshed"]

\* the caller constructs an EquationConnectAPI
LegacyInit ==
    /\ calls < MaxCalls
    /\ \E r \in LegacySignIns(nextTok) :
         /\ legacy' = LegacyConstruct(r)
         /\ nextTok' = IF r = None THEN nextTok ELSE nextTok + 1
    /\ calls' = calls + 1
    /\ task' = [u \in Tasks |-> IF Free(u) THEN Fresh("none") ELSE task[u]]
    /\ UNCHANGED <<session, now>>

\* the caller invokes refresh_token on the EquationConnectAPI it constructed
LegacyRefresh ==
    /\ calls < MaxCalls
    /\ legacy.state = "ready"
    /\ \E r \in LegacyRefreshes(nextTok) :
         /\ legacy' = LegacyRefreshed(legacy, r)
         /\ nextTok' = IF "refreshToken" \notin DOMAIN legacy.user[1]
                          \/ r = None
                       THEN nextTok ELSE nextTok + 1
    /\ calls' = calls + 1
    /\ task' = [u \in Tasks |-> IF Free(u) THEN Fresh("none") ELSE task[u]]
    /\ UNCHANGED <<session, now>>

\* no coroutine is in flight
Alone == \A u \in Tasks : Free(u)

\* no coroutine but calls of authenticate and refresh_token is in flight
OnlyCredentials ==
    \A u \in Tasks : Free(u) \/ task[u].op \in {"authenticate", "refresh_token"}

\* The client from its construction, used by one caller at a time, except
\* that calls of authenticate and of refresh_token may overlap; the caller
\* may also construct and refresh a pyrebase client.
Next ==
    \/ Tick
    \/ \E t \in Tasks : OnlyCredentials /\ CallAuthenticate(t)
    \/ \E t \in Tasks : SignInReply(t)
    \/ \E t \in Tasks : SignInBody(t)
    \/ \E t \in Tasks : SignInExit(t)
    \/ \E t \in Tasks : OnlyCredentials /\ CallRefreshToken(t)
    \/ \E t \in Tasks : Alone /\ CallEnsureTokenValid(t)
    \/ \E t \in Tasks : Alone /\ CallRequest(t)
    \/ \E t \in Tasks : TokenReply(t)
    \/ \E t \in Tasks : TokenBody(t)
    \/ \E t \in Tasks : TokenExit(t)
    \/ \E t \in Tasks : StoreReply(t)
    \/ \E t \in Tasks : StoreBody(t)
    \/ \E t \in Tasks : StoreExit(t)
    \/ Alone /\ LegacyInit
    \/ Alone /\ LegacyRefresh

Spec == Init /\ [][Next]_vars

\* ---------------------------------------------- the methods on the devices
\* the caller invokes get_device or a setter on device d
CallDeviceOp(t) ==
    /\ CanCall(t)
    /\ \E op \in DeviceOps, d \in DeviceNames :
         \E body \in Payloads(op) :
           LET f == EnterEnsure(Called([Fresh(op) EXCEPT !.dev = Some(d),
                                                        !.json = body],
                                       CurrentSess),
                                CurrentSess, now)
           IN  task' = Put(t,
                          IF f.pc = "idle" THEN IssueRequest(f, CurrentSess)
                                           ELSE f)
    /\ calls' = calls + 1
    /\ UNCHANGED <<session, now, nextTok, legacy>>

\* the caller invokes get_devices, which calls get_installations
CallGetDevices(t) ==
    /\ CanCall(t)
    /\ LET f == EnterEnsure(Called(Fresh("get_devices"), CurrentSess),
                            CurrentSess, now)
       IN  task' = Put(t,
                      IF f.pc = "idle" THEN IssueRequest(f, CurrentSess)
                                       ELSE f)
    /\ calls' = calls + 1
    /\ UNCHANGED <<session, now, nextTok, legacy>>

\* the pc at which the `async with` block entered before pc is left
ExitOf(pc) ==
    CASE pc = "body_signin" -> "exit_signin"
      [] pc = "body_token" -> "exit_token"
      [] pc = "body_db" -> "exit_db"
      [] OTHER -> "done"

\* the caller cancels the coroutine while it is suspended: CancelledError
\* is raised at the await and, not being an Exception, passes the except
\* clauses; raised at the await of a body, inside an `async with` block,
\* it has the exit of the block awaited first
Cancel(t) ==
    /\ ~Free(t)
    /\ task' = Put(t,
                  IF ExitOf(task[t].pc) # "done"
                  THEN [task[t] EXCEPT !.pc = ExitOf(task[t].pc),
                                       !.out = "cancelled"]
                  ELSE [task[t] EXCEPT !.pc = "done",
                                       !.raised = "CancelledError",
                                       !.out = "", !.alias = FALSE,
                                       !.held = None])
    /\ UNCHANGED <<session, now, calls, nextTok, legacy>>

\* the sessions a successful authenticate creates at time 0 with token 1
SignedIn ==
    {AuthenticateReply(Sess(None, None, None, 0),
                       Reply(FALSE, HttpOk, Some(b)), 0).s :
       b \in {c \in SignInBodies(1) :
                /\ {"idToken", "localId"} \subseteq DOMAIN c
                /\ ~LifetimeRaises(c, "expiresIn")}}

\* the client after API.__init__ and one successful authenticate
InitApi ==
    /\ email = "user@example.com"
    /\ \E S \in SignedIn :
         /\ user = S.user
         /\ id_token = S.id_token
         /\ uid = S.uid
         /\ token_expiration = S.token_expiration
    /\ now = 0
    /\ calls = 1
    /\ nextTok = 2
    /\ task = [t \in Tasks |-> Fresh("none")]
    /\ legacy = NoLegacy

\* the signed-in client used by one caller at a time, which may cancel a call
NextApi ==
    \/ \E t \in Tasks : Alone /\ CallRequest(t)
    \/ \E t \in Tasks : Alone /\ CallDeviceOp(t)
    \/ \E t \in Tasks : Alone /\ CallGetDevices(t)
    \/ \E t \in Tasks : TokenReply(t)
    \/ \E t \in Tasks : TokenBody(t)
    \/ \E t \in Tasks : TokenExit(t)
    \/ \E t \in Tasks : StoreReply(t)
    \/ \E t \in Tasks : StoreBody(t)
    \/ \E t \in Tasks : StoreExit(t)
    \/ \E t \in Tasks : Cancel(t)

SpecApi == InitApi /\ [][NextApi]_vars

\* the signed-in client at one instant, with up to two requests in flight
NextPair ==
    \/ \E t \in Tasks : CallRequest(t)
    \/ \E t \in Tasks : TokenReply(t)
    \/ \E t \in Tasks : TokenBody(t)
    \/ \E t \in Tasks : TokenExit(t)
    \/ \E t \in Tasks : StoreReply(t)
    \/ \E t \in Tasks : StoreBody(t)
    \/ \E t \in Tasks : StoreExit(t)

SpecPair == InitApi /\ [][NextPair]_vars

\* no call of authenticate is in flight
NoSignIn == \A u \in Tasks : Free(u) \/ task[u].op # "authenticate"

\* no call but calls of authenticate is in flight
OnlySignIns == \A u \in Tasks : Free(u) \/ task[u].op = "authenticate"

\* the signed-in client at one instant, with a request and a sign-in in
\* flight at most
NextMixed ==
    \/ \E t \in Tasks : NoSignIn /\ CallAuthenticate(t)
    \/ \E t \in Tasks : SignInReply(t)
    \/ \E t \in Tasks : SignInBody(t)
    \/ \E t \in Tasks : SignInExit(t)
    \/ \E t \in Tasks : OnlySignIns /\ CallRequest(t)
    \/ \E t \in Tasks : TokenReply(t)
    \/ \E t \in Tasks : TokenBody(t)
    \/ \E t \in Tasks : TokenExit(t)
    \/ \E t \in Tasks : StoreReply(t)
    \/ \E t \in Tasks : StoreBody(t)
    \/ \E t \in Tasks : StoreExit(t)

SpecMixed == InitApi /\ [][NextMixed]_vars

TypeOK ==
    /\ now \in 0..MaxNow
    /\ calls \in 0..MaxCalls
    /\ \A t \in Tasks :
         task[t].pc \in {"idle", "await_signin", "body_signin",
                         "exit_signin", "await_token", "body_token",
                         "exit_token", "await_db", "body_db", "exit_db",
                         "done"}
    /\ legacy.state \in {"none", "ready", "failed"}
    /\ legacy.state = "ready" => legacy.user # None /\ legacy.uid # None

\* ------------------------------------------------------------------ claims
\* the step in which the caller invokes a method in slot t
Invokes(t) == calls' = calls + 1 /\ CanCall(t)

\* the methods that run ensure_token_valid first
EnsureOps == {"ensure_token_valid"} \cup RequestOps

\* the session holds a refresh token to exchange
HasRefreshToken == user # None /\ "refreshToken" \in DOMAIN user[1]

\* the step in which refresh_token handles, in slot t, the reply to its POST
\* (its transport exception, its status when that is not 200, its body
\* otherwise), and how it is going to end: "ok" or "failed"
RefreshHandled(t, how) ==
    /\ task[t].pc \in {"await_token", "body_token"}
    /\ task'[t].pc \notin {"await_token", "body_token"}
    /\ task'[t].raised # "CancelledError"
    /\ IF task'[t].pc = "exit_token" THEN task'[t].out = how
                                     ELSE task'[t].refresh = how

\* what the call in slot t has issued does not change in this step
SameIssued(t) ==
    /\ task'[t].ntoken = task[t].ntoken
    /\ task'[t].nrefresh = task[t].nrefresh
    /\ task'[t].nsignin = task[t].nsignin

\* C1 as stated: whenever ensure_token_valid is entered, in a session that
\* sign-in has created, with now >= token_expiration - 300, exactly one
\* token-exchange POST is issued.
C1_Original ==
    [][\A t \in Tasks :
         (/\ Invokes(t)
          /\ task'[t].op \in EnsureOps
          /\ user # None /\ id_token # None /\ uid # None
          /\ now >= token_expiration - 300)
         => task'[t].ntoken = 1]_vars

\* C1 amended: whenever ensure_token_valid is entered with
\* now >= token_expiration - 300 it calls refresh_token exactly once, and
\* that call issues exactly one token-exchange POST when the session's user
\* record holds a refresh token and none otherwise; entered with
\* now < token_expiration - 300 it calls nothing, issues no network call and
\* changes no session field; and refresh_token is not called and no POST is
\* issued in any later step of the same method call.
C1_EnsureValid ==
    [][\A t \in Tasks :
         /\ (Invokes(t) /\ task'[t].op \in EnsureOps)
            => IF now >= token_expiration - 300
               THEN /\ task'[t].nrefresh = 1
                    /\ task'[t].ntoken = IF HasRefreshToken THEN 1 ELSE 0
                    /\ task'[t].nsignin = 0
               ELSE /\ task'[t].nrefresh = 0
                    /\ task'[t].ntoken = 0
                    /\ task'[t].nsignin = 0
                    /\ task'[t].op = "ensure_token_valid"
                       => task'[t].ndb = 0 /\ task'[t].pc = "done"
                    /\ session' = session
         /\ (~Free(t) /\ task[t].op \in EnsureOps) => SameIssued(t)]_vars

\* C1 witness: an ensure_token_valid call that found the token due, issued
\* its one POST and has ended
C1_Witness ==
    \E t \in Tasks :
        /\ task[t].op = "ensure_token_valid"
        /\ task[t].pc = "done"
        /\ task[t].due = "yes"
        /\ task[t].nrefresh = 1
        /\ task[t].ntoken = 1

\* authenticate has just returned the user record in slot u, and neither
\* the clock nor another coroutine has moved since it returned
JustAuthenticated(u) ==
    /\ task[u].op = "authenticate"
    /\ task[u].pc = "done"
    /\ task[u].ret # None

\* the clock still shows the instant at which the body of the sign-in
\* response of slot u arrived
NoTimeElapsed(u) == now = task[u].at

\* no call that overlapped the sign-in of slot u has assigned another
\* token_expiration since authenticate assigned its own (line 46)
ExpiryAsStored(u) == token_expiration = task[u].expires

\* the step in which the authenticate of slot u handles the body of a
\* sign-in response and succeeds
SignInStored(u) ==
    /\ task[u].pc = "body_signin"
    /\ task'[u].pc = "exit_signin"
    /\ task'[u].out = "ok"

\* C2 as stated: for every provider-declared lifetime, ensure_token_valid
\* called right after a successful authenticate, no time having elapsed,
\* issues no network call.
C2_Original ==
    [][\A t, u \in Tasks :
         (/\ JustAuthenticated(u)
          /\ NoTimeElapsed(u)
          /\ ExpiryAsStored(u)
          /\ Invokes(t)
          /\ task'[t].op = "ensure_token_valid")
         => /\ task'[t].pc = "done"
            /\ task'[t].nrefresh = 0
            /\ task'[t].ntoken = 0]_vars

\* C2 amended: when the sign-in response declared a lifetime above 300
\* seconds, or none (3600 seconds are assumed), authenticate leaves
\* token_expiration more than 300 seconds after the instant the response
\* arrived; and ensure_token_valid called right after that authenticate
\* returned, no time having elapsed since the response arrived and no
\* overlapping sign-in or refresh having assigned another
\* token_expiration since, ends at once without calling refresh_token
\* and without a network call.
C2_NoopAfterAuthenticate ==
    [][\A t, u \in Tasks :
         /\ (SignInStored(u) /\ task'[u].lifetime > 300)
            => /\ now < token_expiration' - 300
               /\ task'[u].expires = token_expiration'
               /\ task'[u].at = now
         /\ (/\ JustAuthenticated(u)
             /\ NoTimeElapsed(u)
             /\ ExpiryAsStored(u)
             /\ task[u].lifetime > 300
             /\ Invokes(t)
             /\ task'[t].op = "ensure_token_valid")
            => /\ task'[t].pc = "done"
               /\ task'[t].nrefresh = 0
               /\ task'[t].ntoken = 0
               /\ task'[t].nsignin = 0
               /\ task'[t].ndb = 0]_vars

\* C2 witness: the second call of the client, ensure_token_valid, has ended
\* as a no-op at a time after 0, the first call having signed in at that
\* time with a declared lifetime of 600 seconds
C2_Witness ==
    \E t \in Tasks :
        /\ task[t].op = "ensure_token_valid"
        /\ task[t].pc = "done"
        /\ task[t].due = "no"
        /\ task[t].ntoken = 0
        /\ calls = 2
        /\ now > 0
        /\ user # None
        /\ "expiresIn" \in DOMAIN user[1]
        /\ user[1].expiresIn = "600"
        /\ token_expiration = now + 600

\* C3: a failed refresh (a reply that is not 200, a transport exception, a
\* 200 reply that lacks an expected field) leaves id_token as it was.
C3_FailedRefreshKeepsToken ==
    [][\A t \in Tasks :
         RefreshHandled(t, "failed") => id_token' = id_token]_vars

\* C4: when the refresh made at the start of a request fails, the request
\* ends in a failure: it raises, or returns no payload of the store.
C4_RefreshFailurePropagates ==
    \A t \in Tasks :
        (/\ task[t].op \in RequestOps
         /\ task[t].pc = "done"
         /\ task[t].refresh = "failed")
        => \/ task[t].raised # ""
           \/ ~task[t].parsed /\ ~Truthy(task[t].ret)

\* C5: no method of the client ends with an exception, and neither does
\* the construction of the pyrebase client.
C5_NeverRaises ==
    /\ \A t \in Tasks : task[t].raised = ""
    /\ legacy.raised = ""

\* a reply of the store has reached the request in slot t, which has ended
Answered(t) ==
    /\ task[t].op \in RequestOps
    /\ task[t].pc = "done"
    /\ task[t].status # 0

\* C6 as stated: for every status outside 200..299 the body is not decoded
\* and no payload is returned, and for every status in 200..299 the decoded
\* body is returned.
C6_Original ==
    \A t \in Tasks :
        Answered(t) /\ task[t].body # Undecodable
        => IF task[t].status \in 200..299
           THEN /\ task[t].parsed
                /\ task[t].op = "get_user_info" => task[t].ret = task[t].body
           ELSE /\ ~task[t].parsed
                /\ task[t].op = "get_user_info" => task[t].ret = None

\* C6 amended: for every status other than 200 the body is not decoded and
\* request returns None, and for status 200 with a body that is JSON the
\* decoded body is returned.
C6_StatusDecides ==
    \A t \in Tasks :
        Answered(t) /\ task[t].body # Undecodable
        => IF task[t].status = 200
           THEN /\ task[t].parsed
                /\ task[t].op = "get_user_info" => task[t].ret = task[t].body
           ELSE /\ ~task[t].parsed
                /\ task[t].op = "get_user_info" => task[t].ret = None

\* C6 witness: a read answered 403 with a JSON body has returned None
C6_Witness ==
    \E t \in Tasks :
        /\ Answered(t)
        /\ task[t].op = "get_user_info"
        /\ task[t].status = 403
        /\ task[t].body = Some(Json("dict", 1))
        /\ task[t].ret = None

\* the request in slot t has ended in a failure of the store or the transport
FailedRequest(t) ==
    /\ task[t].op \in RequestOps
    /\ task[t].pc = "done"
    /\ task[t].ndb = 1
    /\ task[t].status # 200

\* the values the getter op returns when the store answers 200 with JSON
SuccessValues(op) ==
    {GetterResult(op, RequestReply(Reply(FALSE, 200, v)).ret) : v \in JsonValues}

\* C7: the value a request returns after a failure of the store or of the
\* transport is none of the values a successful request can return.
C7_FailureDistinguishable ==
    \A t \in Tasks :
        FailedRequest(t) => task[t].ret \notin SuccessValues(task[t].op)

\* C8: no retry: a call of authenticate issues at most one sign-in POST and
\* nothing else, a call of refresh_token at most one token-exchange POST and
\* nothing else, and a request at most one token-exchange POST and at most
\* one store call, whatever the replies were.
C8_NoRetry ==
    \A t \in Tasks :
        /\ task[t].nsignin <= 1 /\ task[t].ntoken <= 1 /\ task[t].ndb <= 1
        /\ task[t].nrefresh <= 1
        /\ task[t].op = "authenticate"
           => task[t].ntoken = 0 /\ task[t].ndb = 0
        /\ task[t].op \in {"refresh_token", "ensure_token_valid"}
           => task[t].nsignin = 0 /\ task[t].ndb = 0
        /\ task[t].op \in RequestOps => task[t].nsignin = 0

\* C8 witness: a request has ended after a failed refresh and a failed
\* store call, having issued one of each
C8_Witness ==
    \E t \in Tasks :
        /\ FailedRequest(t)
        /\ task[t].refresh = "failed"
        /\ task[t].ntoken = 1

\* the step in which the call in slot t issues its store request
Issues(t) ==
    /\ Invokes(t) \/ task'[t].ndb = task[t].ndb + 1
    /\ task'[t].pc = "await_db"

\* C9: get_installations issues a GET to installations2 whose query
\* parameters are exactly auth, the id_token of the instant of the issue,
\* orderBy, the string "userid" in double quotes, and equalTo, in double
\* quotes the user id the session held when get_installations was called;
\* the bare strings are not emitted.
C9_InstallationsQuery ==
    [][\A t \in Tasks :
         /\ (Invokes(t) /\ task'[t].op = "get_installations")
            => LET a == task'[t].args
               IN  /\ a.method = "GET" /\ a.path = "installations2"
                   /\ a.json = None
                   /\ DOMAIN a.params = {"orderBy", "equalTo"}
                   /\ a.params.orderBy = "\"userid\""
                   /\ a.params.orderBy # "userid"
                   /\ uid = <<"u1">> => a.params.equalTo = "\"u1\""
                   /\ uid = <<"u2">> => a.params.equalTo = "\"u2\""
                   /\ uid # None => a.params.equalTo # uid[1]
         /\ (~Free(t) /\ task[t].op = "get_installations")
            => task'[t].args = task[t].args
         /\ (Issues(t) /\ task'[t].op = "get_installations")
            => LET q == task'[t].req[1]
               IN  /\ task'[t].ndb = 1
                   /\ q.method = "GET"
                   /\ q.url = "https://oem2-elife-cloud-prod-default-rtdb.firebaseio.com/installations2.json"
                   /\ DOMAIN q.params = {"auth", "orderBy", "equalTo"}
                   /\ q.params.auth = id_token'
                   /\ q.params.orderBy = task'[t].args.params.orderBy
                   /\ q.params.equalTo = task'[t].args.params.equalTo]_vars

\* C9 witness: the installations query is in flight for user u1, who was
\* signed in when get_installations was called, with the token of user u2,
\* whom an overlapping sign-in made the session's user during the refresh
C9_Witness ==
    \E t \in Tasks :
        /\ task[t].op = "get_installations"
        /\ task[t].pc = "await_db"
        /\ task[t].refresh \in {"ok", "failed"}
        /\ uid = <<"u2">>
        /\ id_token # None
        /\ task[t].req[1].params.auth = id_token
        /\ task[t].req[1].params.equalTo = "\"u1\""

\* get_installations has returned in slot t
InstallationsReturned(t) ==
    /\ task[t].op = "get_installations"
    /\ task[t].pc = "done"
    /\ task[t].raised = ""

\* C10 as stated: get_installations returns a mapping, never null, whatever
\* the outcome of the request.
C10_Original ==
    \A t \in Tasks :
        InstallationsReturned(t)
        => task[t].ret # None /\ task[t].ret[1].kind = "dict"

\* C10 amended: get_installations never returns null: it returns the empty
\* mapping whenever the request failed or the store's payload is null or
\* empty, and the payload itself otherwise, so that it returns a mapping
\* whenever the store's payload is a JSON object.
C10_InstallationsNotNull ==
    \A t \in Tasks :
        InstallationsReturned(t)
        => /\ task[t].ret # None
           /\ (\/ task[t].status # 200
               \/ task[t].body = None
               \/ task[t].body[1].kind = "undecodable"
               \/ task[t].body[1].n = 0)
              => task[t].ret = <<[kind |-> "dict", n |-> 0]>>
           /\ (/\ task[t].status = 200
               /\ task[t].body # None
               /\ task[t].body[1].kind # "undecodable"
               /\ task[t].body[1].n > 0)
              => task[t].ret = task[t].body
           /\ (/\ task[t].status = 200
               /\ task[t].body # None
               /\ task[t].body[1].kind = "dict")
              => task[t].ret[1].kind = "dict"

\* C10 witness: get_installations has returned the empty mapping for an
\* empty object of the store
C10_Witness ==
    \E t \in Tasks :
        /\ InstallationsReturned(t)
        /\ task[t].status = 200
        /\ task[t].body = <<[kind |-> "dict", n |-> 0]>>
        /\ task[t].ret = <<[kind |-> "dict", n |-> 0]>>

\* the tokens the identity provider has issued so far
IssuedTokens == {Some(k) : k \in 1..(nextTok - 1)}

\* the requests in slots t and u both found the token due and the refresh
\* of each has succeeded and returned
BothRefreshed(t, u) ==
    /\ t # u
    /\ task[t].op \in RequestOps /\ task[u].op \in RequestOps
    /\ task[t].due = "yes" /\ task[t].refresh = "ok"
    /\ task[u].due = "yes" /\ task[u].refresh = "ok"

\* the session's two tokens come from one refresh response, the latest, and
\* the store calls of both requests carry tokens the provider issued
SameResponseTokens(t, u) ==
    /\ id_token # None /\ user # None
    /\ id_token = Some(nextTok - 1)
    /\ user[1].idToken = id_token[1]
    /\ user[1].refreshToken = id_token[1]
    /\ task[t].req # None /\ task[u].req # None
    /\ task[t].req[1].params.auth \in IssuedTokens
    /\ task[u].req[1].params.auth \in IssuedTokens

\* C11 as stated: when two concurrent requests both find the token due and
\* both refreshes succeed, the session ends with an id_token and a refresh
\* token of one and the same response and with an expiry beyond the safety
\* margin, and each store call carries a token the provider issued.
C11_Original ==
    \A t, u \in Tasks :
        BothRefreshed(t, u)
        => /\ SameResponseTokens(t, u)
           /\ now < token_expiration - 300

\* C11 amended: when two concurrent requests both find the token due and
\* both refreshes succeed, the session ends with the id_token and the
\* refresh token of one and the same response, that of one of the two
\* refreshes, and with the expiry the instant of that response's arrival
\* plus the lifetime it declared (3600 when none), which is beyond the
\* safety margin when that lifetime is above 300 and not otherwise; each
\* store call carries a token the provider issued, which is not the token
\* the session held before the refresh of that request.
C11_DoubleRefreshBenign ==
    \A t, u \in Tasks :
        BothRefreshed(t, u)
        => /\ SameResponseTokens(t, u)
           /\ \E w \in {t, u} :
                /\ token_expiration = now + task[w].lifetime
                /\ task[w].lifetime \in {0, 600, 3600}
                /\ task[w].lifetime > 300 <=> now < token_expiration - 300
           /\ task[t].req[1].params.auth # task[t].pre
           /\ task[u].req[1].params.auth # task[u].pre

\* C11 witness: two requests are awaiting the store, each after a refresh
\* of its own that succeeded, both replies having arrived before either
\* request left refresh_token: both store calls carry the later token
C11_Witness ==
    /\ \A t \in Tasks :
          /\ task[t].op \in RequestOps
          /\ task[t].pc = "await_db"
          /\ task[t].due = "yes"
          /\ task[t].refresh = "ok"
    /\ task[1].req[1].params.auth = task[2].req[1].params.auth
    /\ id_token = task[1].req[1].params.auth
    /\ user[1].refreshToken = id_token[1]
    /\ task[1].pre # task[2].pre
    /\ token_expiration > now + 300

\* the HTTP call the method in slot t awaits is cancelled in this step, or
\* its store call ends in a transport exception such as a timeout
Interrupted(t) ==
    /\ task[t].op \in StoreOps
    /\ ~Free(t)
    /\ \/ task'[t].raised = "CancelledError"
       \/ /\ task[t].pc = "await_db"
          /\ task[t].op # "get_devices"
          /\ task'[t].pc = "done"
          /\ task'[t].status = 0

\* C12: when the HTTP call of a request, or of the refresh it triggers, is
\* cancelled or times out, the method returns None to its caller, raising
\* nothing, and every session field keeps the value it had.
C12_InterruptedReturnsFailure ==
    [][\A t \in Tasks :
         Interrupted(t)
         => /\ task'[t].pc = "done"
            /\ task'[t].raised = ""
            /\ task[t].op # "get_installations" => task'[t].ret = None
            /\ session' = session]_vars

\* the step in which a refresh succeeds in slot t
RefreshSucceeds(t) == RefreshHandled(t, "ok")

\* C13 as stated: every successful refresh, in any order of completion and
\* for every lifetime the provider declares, leaves token_expiration
\* strictly greater than it was.
C13_Original ==
    [][\A t \in Tasks :
         RefreshSucceeds(t) => token_expiration' > token_expiration]_vars

\* C13 amended: every successful refresh sets token_expiration to the
\* instant its reply arrives plus the lifetime the reply declares (3600
\* when none); the new value is strictly greater than the old one when the
\* token is still due at that instant (now >= token_expiration - 300) and
\* the declared lifetime is above 300, and it may be equal or smaller
\* otherwise.
C13_ExpiryAfterRefresh ==
    [][\A t \in Tasks :
         RefreshSucceeds(t)
         => /\ token_expiration' = now + task'[t].lifetime
            /\ task'[t].lifetime \in {0, 600, 3600}
            /\ (now >= token_expiration - 300 /\ task'[t].lifetime > 300)
               => token_expiration' > token_expiration]_vars

\* C13 witness: a refresh has succeeded at a time after 0 with a declared
\* lifetime of 600 seconds
C13_Witness ==
    \E t \in Tasks :
        /\ task[t].refresh = "ok"
        /\ task[t].pc = "await_db"
        /\ task[t].lifetime = 600
        /\ now > 0
        /\ token_expiration = now + 600

\* C14: in every reachable state id_token is set, to a token the provider
\* issued, whenever token_expiration differs from its initial value 0.
C14_TokenWheneverExpiry ==
    token_expiration # 0 => id_token # None /\ id_token \in IssuedTokens

\* C14 witness: the expiry is set and the session holds a token, after a
\* refresh that failed
C14_Witness ==
    /\ token_expiration # 0
    /\ id_token # None
    /\ \E t \in Tasks : task[t].refresh = "failed"

\* the methods C15 names
GettersAndSetters ==
    {"get_user_info", "get_installations", "get_device", "get_devices",
     "set_device_power", "set_device_temperature", "set_device_mode"}

\* the refresh token the session stores, None when it stores none
StoredRefreshToken(u) ==
    IF u = None THEN None ELSE DictGet(u[1], "refreshToken")

\* C15: in a signed-in session, a step of a getter or a setter
\* (get_user_info, get_installations, get_device, get_devices,
\* set_device_power, set_device_temperature, set_device_mode) that is not
\* the arrival of the body of the reply to the refresh it triggered
\* changes none of id_token, the refresh token, uid, email and
\* token_expiration; so the session changes only inside refresh_token.
C15_OnlyRefreshMutates ==
    [][/\ \A t \in Tasks :
            (/\ task'[t].op \in GettersAndSetters
             /\ task'[t] # task[t]
             /\ task[t].pc # "body_token")
            => /\ id_token' = id_token
               /\ StoredRefreshToken(user') = StoredRefreshToken(user)
               /\ uid' = uid
               /\ email' = email
               /\ token_expiration' = token_expiration
               /\ user' = user
       /\ session' # session
          => \E t \in Tasks : \/ RefreshHandled(t, "ok")
                              \/ RefreshHandled(t, "failed")]_vars

\* C15 witness: get_devices has returned two devices without a refresh, in
\* the session as sign-in left it
C15_Witness ==
    \E t \in Tasks :
        /\ task[t].op = "get_devices"
        /\ task[t].pc = "done"
        /\ Len(task[t].devices) = 2
        /\ task[t].nrefresh = 0
        /\ id_token = <<1>>
        /\ user \in {S.user : S \in SignedIn}

\* the step in which refresh_token handles the reply to its POST in slot t
RefreshEnds(t) == RefreshHandled(t, "ok") \/ RefreshHandled(t, "failed")

\* the step in which refresh_token of the pyrebase client runs
LegacyRefreshEnds ==
    /\ legacy' # legacy
    /\ legacy'.last \in {"refreshed", "refresh failed"}

\* C16: refresh_token, whether it succeeds or fails, leaves uid and email as
\* they were, and of the user record it changes at most the entries
\* idToken and refreshToken: localId stays as sign-in stored it.  The
\* refresh_token of the pyrebase client leaves uid and email as they were
\* as well.  (An overlapping sign-in may have replaced the user record by
\* null while the refresh awaited its reply.)
C16_RefreshKeepsIdentity ==
    [][/\ \A t \in Tasks :
            RefreshEnds(t)
            => /\ uid' = uid
               /\ email' = email
               /\ user = None => user' = None
               /\ user # None
                  => /\ user' # None
                     /\ \A k \in DOMAIN user[1] \ {"idToken", "refreshToken"} :
                          k \in DOMAIN user'[1] /\ user'[1][k] = user[1][k]
                     /\ DOMAIN user[1] \subseteq DOMAIN user'[1]
                     /\ DOMAIN user'[1] \subseteq
                          DOMAIN user[1] \cup {"idToken", "refreshToken"}
       /\ LegacyRefreshEnds
          => /\ legacy'.uid = legacy.uid
             /\ legacy'.email = legacy.email
             /\ legacy'.state = "ready"]_vars

\* C16 witness: a refresh has succeeded in the session of user u1, which
\* holds a new token and a new refresh token beside what sign-in stored
C16_Witness ==
    \E t \in Tasks :
        /\ task[t].refresh = "ok"
        /\ uid = <<"u1">>
        /\ user # None
        /\ {"localId", "expiresIn", "refreshToken"} \subseteq DOMAIN user[1]
        /\ user[1].localId = "u1"
        /\ user[1].expiresIn = "0"
        /\ id_token # <<1>>
        /\ user[1].refreshToken = id_token[1]

\* the URL of the read of device d
DeviceUrl(d) ==
    "https://oem2-elife-cloud-prod-default-rtdb.firebaseio.com/devices/"
    \o d \o ".json"

\* the positions of the device reads that returned a value that is not
\* null, empty or a failure
Fetched(f) == {i \in 1..Len(f.got) : Truthy(f.got[i])}

\* C17: once get_installations has returned its listing, get_devices has
\* issued, when it ends, the installations query and then exactly one read
\* per listed device id, in order; every device of its list has the id of
\* the read that fetched it; and its list holds the devices of exactly the
\* reads that returned a value, a read that failed or returned nothing being
\* skipped without ending the enumeration.
C17_OneReadPerDevice ==
    \A t \in Tasks :
        (/\ task[t].op = "get_devices"
         /\ task[t].pc = "done"
         /\ task[t].listed # None
         /\ task[t].raised # "CancelledError")
        => LET f == task[t]
               ids == f.listed[1]
           IN  /\ Len(f.sent) = 1 + Len(ids)
               /\ f.sent[1].url = "https://oem2-elife-cloud-prod-default-rtdb.firebaseio.com/installations2.json"
               /\ \A i \in 1..Len(ids) :
                    /\ f.sent[i + 1].method = "GET"
                    /\ f.sent[i + 1].url = DeviceUrl(ids[i])
               /\ \A j \in 1..Len(f.devices) :
                    f.sent[f.devices[j].via].url = DeviceUrl(f.devices[j].id)
               /\ {f.devices[j].via - 1 : j \in 1..Len(f.devices)}
                  = Fetched(f)
               /\ Len(f.devices) = Cardinality(Fetched(f))

\* C18: every store call of a request is issued after ensure_token_valid
\* has run in the same request, at most one refresh_token with it, and its
\* auth parameter is the session's id_token of the instant of the issue;
\* when the refresh of that request succeeded it is a token the provider
\* issued after the one the session held before that refresh (that of the
\* refresh's response, or of a later one of an overlapping request) and
\* not the pre-refresh token.
C18_TokenAtIssue ==
    [][\A t \in Tasks :
         Issues(t)
         => LET q == task'[t].req[1]
            IN  /\ task'[t].due \in {"yes", "no"}
                /\ task'[t].nrefresh = IF task'[t].due = "yes" THEN 1 ELSE 0
                /\ q.params.auth = id_token'
                /\ task'[t].sent = <<q>>
                /\ task'[t].refresh = "ok"
                   => /\ q.params.auth \in IssuedTokens
                      /\ q.params.auth # task'[t].pre
                      /\ task'[t].pre # None
                         => q.params.auth[1] > task'[t].pre[1]
                      /\ task[t].pc = "exit_token"]_vars

\* C18 witness: a get_user_info is awaiting the store with the token its
\* own refresh has stored in place of the token of the sign-in
C18_Witness ==
    \E t \in Tasks :
        /\ task[t].op = "get_user_info"
        /\ task[t].pc = "await_db"
        /\ task[t].refresh = "ok"
        /\ task[t].pre = <<1>>
        /\ id_token = <<2>>
        /\ task[t].req[1].params.auth = id_token

\* C19: a refresh that fails leaves token_expiration and the stored refresh
\* token as they were.
C19_FailedRefreshKeepsRefreshToken ==
    [][\A t \in Tasks :
         RefreshHandled(t, "failed")
         => /\ token_expiration' = token_expiration
            /\ StoredRefreshToken(user') = StoredRefreshToken(user)]_vars

\* C20: an authenticate that fails on a reply that is not 200, a transport
\* exception or a 200 reply lacking idToken or localId, and is going to
\* return None, leaves user, id_token, uid and token_expiration as they
\* were.
C20_FailedAuthenticateKeepsSession ==
    [][\A t \in Tasks :
         (/\ \/ /\ task[t].pc = "await_signin"
                /\ task'[t].pc = "done" /\ task'[t].raised = ""
             \/ /\ task[t].pc = "body_signin"
                /\ task'[t].pc = "exit_signin" /\ task'[t].out = "failed"
          /\ \/ user' = user
             \/ /\ user' # None
                /\ \/ "idToken" \notin DOMAIN user'[1]
                   \/ "localId" \notin DOMAIN user'[1])
         => /\ user' = user
            /\ id_token' = id_token
            /\ uid' = uid
            /\ token_expiration' = token_expiration]_vars

====
